---- MODULE Spec2Model ----
(***************************************************************************)
(* World Bank pipeline: api_fetcher.py (get, fetch_indicator,              *)
(* fetch_all_african_data) and database.py (save_raw_records and           *)
(* load_raw_records over PostgreSQL staging tables).                       *)
(*                                                                         *)
(* Spec     : one call of get(url, retries, backoff) or of                 *)
(*            fetch_indicator(country, indicator) against an arbitrary     *)
(*            transport: every attempt either raises or returns some JSON. *)
(* FairSpec : Spec with weak fairness of Next (one thread, always runs).   *)
(* SpecDb   : any sequence of save_raw_records and load_raw_records calls *)
(*            on one database; a save that returned may be repeated with   *)
(*            the same records. The surrogate id column, which the code    *)
(*            never writes, is left out of the rows.                       *)
(* SpecAll  : one call of fetch_all_african_data over the first            *)
(*            MaxCountries countries and both indicators.                  *)
(* SpecE2E  : fetch_indicator for Kenya's GDP growth, its records saved    *)
(*            with save_raw_records and read back with load_raw_records.   *)
(***************************************************************************)
EXTENDS Integers, Sequences, FiniteSets, TLC

\* ------------------------------------------------------------------ bounds
\* Pages 1..MaxPage are modelled exactly; page MaxPage + 1 stands for every
\* later page (the page counter saturates there, and nothing is logged).
MaxPage == 3
\* get is called directly with retries in 0..MaxRetries, backoff in 1..MaxBackoff.
MaxRetries == 4
MaxBackoff == 3
\* save_raw_records is called with lists of at most MaxBatch raw records.
MaxBatch == 3
\* datetime.now takes the values 0..MaxClock.
MaxClock == 1
\* execute_batch's page_size (500 in the source), scaled to the batches above.
PageSize == 2
\* fetch_all_african_data iterates over the first MaxCountries countries.
MaxCountries == 2

\* ------------------------------------------------------- program constants
DefaultRetries == 3
DefaultBackoff == 2
\* INDICATORS, in the order the dict is iterated
INDICATORS ==
    <<[name |-> "gdp_growth", code |-> "NY.GDP.MKTP.KD.ZG"],
      [name |-> "unemployment", code |-> "SL.UEM.TOTL.ZS"]>>
AFRICAN_COUNTRIES ==
    <<"DZA", "AGO", "BEN", "BWA", "BFA", "BDI", "CPV", "CMR", "CAF", "TCD",
      "COM", "COD", "COG", "CIV", "DJI", "EGY", "GNQ", "ERI", "SWZ", "ETH",
      "GAB", "GMB", "GHA", "GIN", "GNB", "KEN", "LSO", "LBR", "LBY", "MDG",
      "MWI", "MLI", "MRT", "MUS", "MAR", "MOZ", "NAM", "NER", "NGA", "RWA",
      "STP", "SEN", "SLE", "SOM", "ZAF", "SSD", "SDN", "TZA", "TGO", "TUN",
      "UGA", "ZMB", "ZWE", "SYC">>
\* time.sleep(0.15), in milliseconds
RequestDelay == 150

\* --------------------------------------------------------------- JSON data
Max(a, b) == IF a >= b THEN a ELSE b

\* The value of meta["pages"]: absent, null, a non-numeric string, an integer
\* or a string of digits (the string "2").
PagesInts == (0 - 1)..(MaxPage + 2)
\* The integers the server declares on page p: any of -1..MaxPage and the
\* number after p. On page MaxPage + 1, which stands for every later page q,
\* the total MaxPage + 2 stands for q + 1.
TotalsAt(p) == (0 - 1)..Max(MaxPage, p + 1)
PagesValues ==
    {[k |-> "absent", n |-> 0], [k |-> "null", n |-> 0], [k |-> "str", n |-> 0]}
    \cup {[k |-> "int", n |-> i] : i \in PagesInts}
    \cup {[k |-> "numstr", n |-> 2]}

\* The second top-level element: null or a list of raw records.
RecordLists == {<<>>, <<"r1">>, <<"r2", "r1">>}
RecordsValues ==
    {[k |-> "null", items |-> <<>>]} \cup {[k |-> "list", items |-> l] : l \in RecordLists}

NoPages == [k |-> "absent", n |-> 0]
NoRecords == [k |-> "null", items |-> <<>>]

\* What get returns: None, or the parsed JSON: a list of elems top-level
\* elements (2 stands for two or more), the first two being meta and records.
Failure == [t |-> "None", elems |-> 0, pages |-> NoPages, records |-> NoRecords]
ShortLists == {[t |-> "list", elems |-> e, pages |-> NoPages, records |-> NoRecords] : e \in 0..1}
FullLists ==
    {[t |-> "list", elems |-> 2, pages |-> p, records |-> r] : p \in PagesValues, r \in RecordsValues}
JsonValues == {Failure} \cup ShortLists \cup FullLists

\* ---------------------------------------------------- World Bank records
\* A JSON field holding text: absent, null or a string.
AbsentF == [k |-> "absent", s |-> ""]
NullF == [k |-> "null", s |-> ""]
Str(x) == [k |-> "str", s |-> x]
\* A nested object ("country", "indicator"): absent, null or {id, value}.
AbsentObj == [k |-> "absent", id |-> AbsentF, value |-> AbsentF]
NullObj == [k |-> "null", id |-> AbsentF, value |-> AbsentF]
Obj(i, v) == [k |-> "obj", id |-> i, value |-> v]
Y2020 == <<"2", "0", "2", "0">>
Y2021 == <<"2", "0", "2", "1">>
Y2022 == <<"2", "0", "2", "2">>
\* "date": absent, a string (its characters) or the JSON list ["2020"].
AbsentDate == [k |-> "absent", chars |-> <<>>]
DateStr(c) == [k |-> "str", chars |-> c]
DateList == [k |-> "list", chars |-> Y2020]
\* "value": null or a number.
NullValue == [k |-> "null", n |-> 0]
Num(x) == [k |-> "num", n |-> x]

Raw(iso, c, d, v, i) ==
    [countryiso3code |-> iso, country |-> c, date |-> d, value |-> v, indicator |-> i]

GdpIndicator == Obj(Str("NY.GDP.MKTP.KD.ZG"), Str("GDP growth (annual %)"))

\* well-formed records: recA and recB carry the same key, recD has no direct
\* ISO3 code and falls back to the nested country id
recA == Raw(Str("KEN"), Obj(Str("KE"), Str("Kenya")), DateStr(Y2020), Num(5), GdpIndicator)
recB == Raw(Str("KEN"), Obj(Str("KE"), Str("Republic of Kenya")), DateStr(Y2020), NullValue,
            Obj(Str("NY.GDP.MKTP.KD.ZG"), Str("GDP growth")))
recD == Raw(Str(""), Obj(Str("KE"), Str("Kenya")), DateStr(Y2021), Num(7), GdpIndicator)
GoodRecords == {recA, recB, recD}
\* Kenya's records of 2021 and 2022
recK21 == Raw(Str("KEN"), Obj(Str("KE"), Str("Kenya")), DateStr(Y2021), Num(6), GdpIndicator)
recK22 == Raw(Str("KEN"), Obj(Str("KE"), Str("Kenya")), DateStr(Y2022), NullValue, GdpIndicator)

\* records with missing or unparseable key fields
recNoIso == Raw(AbsentF, AbsentObj, DateStr(Y2020), Num(5), GdpIndicator)
recNoDate == Raw(Str("KEN"), Obj(Str("KE"), Str("Kenya")), AbsentDate, Num(5), GdpIndicator)
recBadYear == Raw(Str("KEN"), Obj(Str("KE"), Str("Kenya")), DateStr(<<"2", "0", "x">>), Num(5),
                  GdpIndicator)
recNullCountry == Raw(AbsentF, NullObj, DateStr(Y2020), Num(5), GdpIndicator)
recListDate == Raw(Str("KEN"), Obj(Str("KE"), Str("Kenya")), DateList, Num(5), GdpIndicator)
BadRecords == {recNoIso, recNoDate, recBadYear, recNullCountry, recListDate}

VARIABLES
    caller,       \* the function that was called; between two calls of
                  \* database.py, save_raw_records
    pc,           \* api_fetcher.py: "get", "check", "done", "raised", "returned";
                  \* database.py: "idle", "exec", "ended"
    retries,      \* get's parameter
    backoff,      \* get's parameter
    attempt,      \* get's loop variable
    outcomes,     \* history: each attempt of the current get call, [ok, json]
    sleeps,       \* history: the waits of the current get call, in order
    data,         \* what get returned
    page,         \* fetch_indicator's page
    all_records,  \* fetch_indicator's accumulator
    reqs,         \* history: the pages requested (pages 1..MaxPage)
    resps,        \* history: what get returned for each of them
    exc,          \* the exception that left the call, "" if none
    tables,       \* committed content of raw_gdp_growth and raw_unemployment
    clock,        \* the latest value datetime.now returned
    conn,         \* "closed" or "open": the psycopg2 connection of get_conn
    work,         \* the open transaction's view of the tables
    pending,      \* rows execute_batch has not sent yet
    args,         \* history: [ind, recs] of the current or last save_raw_records
    rows,         \* the rows the call normalized
    before,       \* history: tables when the call began
    pagesDone,    \* history: pages execute_batch has executed in this call
    ret,          \* history: how the last call ended
    repeat,       \* history: the call repeats the call before it, which committed
    connLog,      \* history: what the call did with its connection, in order
    loaded,       \* what load_raw_records returned
    country,      \* fetch_all_african_data: position in AFRICAN_COUNTRIES
    ind_name,     \* fetch_all_african_data: position in INDICATORS
    results,      \* fetch_all_african_data's results
    done,         \* fetch_all_african_data's counter
    events        \* history: fetch_indicator calls, their returns and the sleeps

fetchVars == <<retries, backoff, attempt, outcomes, sleeps, data, page, all_records, reqs, resps>>
dbVars == <<tables, clock, conn, work, pending, args, rows, before, pagesDone, ret, repeat,
           connLog, loaded>>
allVars == <<country, ind_name, results, done, events>>
vars == <<caller, pc, exc, fetchVars, dbVars, allVars>>

\* AFRICAN_COUNTRIES as far as fetch_all_african_data iterates over it
Countries == SubSeq(AFRICAN_COUNTRIES, 1, MaxCountries)

\* What the transport serves to fetch_all_african_data: a failure, or a page
\* declaring a total of null, 1 or 2 and holding no record or one record of
\* the country and indicator the URL names.
ServedToAll ==
    {Failure} \cup
    {[t |-> "list", elems |-> 2, pages |-> p, records |-> r] :
        p \in {[k |-> "null", n |-> 0], [k |-> "int", n |-> 1], [k |-> "int", n |-> 2]},
        r \in {NoRecords,
               [k |-> "list",
                items |-> <<[country |-> Countries[country],
                             indicator |-> INDICATORS[ind_name].code,
                             page |-> page]>>]}}

\* What the transport serves to the pipeline: a failure, or a page declaring
\* a total of null, 1 or 2 and holding no record, Kenya's records of 2022 and
\* 2021, or its record of 2020.
ServedToPipeline ==
    {Failure} \cup
    {[t |-> "list", elems |-> 2, pages |-> p, records |-> r] :
        p \in {[k |-> "null", n |-> 0], [k |-> "int", n |-> 1], [k |-> "int", n |-> 2]},
        r \in {NoRecords,
               [k |-> "list", items |-> <<recK22, recK21>>],
               [k |-> "list", items |-> <<recA>>]}}

\* the JSON values an attempt may return
Served ==
    IF caller = "fetch_all_african_data" THEN ServedToAll
    ELSE IF caller = "pipeline" THEN ServedToPipeline
    ELSE JsonValues

RECURSIVE Pow(_, _)
Pow(b, e) == IF e = 0 THEN 1 ELSE b * Pow(b, e - 1)

\* ------------------------------------------------------------------- get
\* faulty variant: range(1, retries), one attempt short
GetExhaustedEarly(a, r) == a >= r

\* range(1, retries + 1) is exhausted
GetExhaustedCond(a, r) == a > r

\* faulty variant: wait = backoff * attempt
BackoffLinear(b, a) == b * a

\* wait = backoff ** attempt
BackoffWait(b, a) == Pow(b, a)

\* where get returns to
AfterGet == IF caller = "get" THEN "done" ELSE "check"

Logged(seq, x) == IF page <= MaxPage THEN Append(seq, x) ELSE seq
\* the callers whose pages the history records
LogsPages == caller \in {"fetch_indicator", "pipeline"}

\* One attempt whose urlopen + json.loads succeed: get returns the JSON.
GetSucceeds ==
    /\ pc = "get"
    /\ ~GetExhaustedCond(attempt, retries)
    /\ \E j \in Served :
        /\ j.pages.k = "int" => j.pages.n \in TotalsAt(page)
        /\ page > MaxPage => j.records.items = <<>>
        /\ data' = j
        /\ outcomes' = Append(outcomes, [ok |-> TRUE, json |-> j])
        /\ resps' = IF LogsPages THEN Logged(resps, j) ELSE resps
    /\ pc' = AfterGet
    /\ UNCHANGED <<caller, retries, backoff, attempt, sleeps, page, all_records, reqs, exc, dbVars, allVars>>

\* One attempt that raises: warn, sleep backoff ** attempt, next attempt.
GetFails ==
    /\ pc = "get"
    /\ ~GetExhaustedCond(attempt, retries)
    /\ outcomes' = Append(outcomes, [ok |-> FALSE, json |-> Failure])
    /\ sleeps' = Append(sleeps, BackoffWait(backoff, attempt))
    /\ attempt' = attempt + 1
    /\ UNCHANGED <<caller, pc, retries, backoff, data, page, all_records, reqs, resps, exc, dbVars, allVars>>

\* All retries exhausted: return None.
GetGivesUp ==
    /\ pc = "get"
    /\ GetExhaustedCond(attempt, retries)
    /\ data' = Failure
    /\ resps' = IF LogsPages THEN Logged(resps, Failure) ELSE resps
    /\ pc' = AfterGet
    /\ UNCHANGED <<caller, retries, backoff, attempt, outcomes, sleeps, page, all_records,
                   reqs, exc, dbVars, allVars>>

\* ------------------------------------------------------- fetch_indicator
\* data is None or len(data) < 2
NoPage(d) == d.t = "None" \/ d.elems < 2

\* meta.get("pages", 1)
PagesOrDefault(d) == IF d.pages.k = "absent" THEN [k |-> "int", n |-> 1] ELSE d.pages

\* int(x): an integer is itself, a string of digits is parsed, None is a
\* TypeError and any other string a ValueError.
IntRaises(v) == v.k \in {"null", "str"}
IntError(v) == IF v.k = "null" THEN "TypeError" ELSE "ValueError"
IntOf(v) == v.n

\* faulty variant: all_records = records instead of extend
ExtendedReplacing(acc, r) == IF r.k = "list" /\ Len(r.items) > 0 THEN r.items ELSE acc

\* if records: all_records.extend(records)
Extended(acc, r) == IF r.k = "list" /\ Len(r.items) > 0 THEN acc \o r.items ELSE acc

\* faulty variant: page > total, one page too many
LastPageStrict(p, total) == p > total

\* faulty variant: the total is taken from the first page's metadata only
LastPageFromFirst(p, total) == p >= IntOf(PagesOrDefault(resps[1]))

\* page >= int(meta.get("pages", 1))
LastPage(p, total) == p >= total

\* page += 1 (saturating at MaxPage + 1, which stands for all later pages)
NextPage(p) == IF p <= MaxPage THEN p + 1 ELSE p

\* the call of get at the top of the loop
CallGet ==
    /\ attempt' = 1
    /\ outcomes' = <<>>
    /\ sleeps' = <<>>

\* data is None or too short: break, return all_records
LoopBreaksOnFailure ==
    /\ pc = "check"
    /\ NoPage(data)
    /\ pc' = "done"
    /\ UNCHANGED <<caller, retries, backoff, attempt, outcomes, sleeps, data, page,
                   all_records, reqs, resps, exc, dbVars, allVars>>

\* int(meta.get("pages", 1)) raises, after the records were appended
LoopRaises ==
    /\ pc = "check"
    /\ ~NoPage(data)
    /\ IntRaises(PagesOrDefault(data))
    /\ all_records' = Extended(all_records, data.records)
    /\ exc' = IntError(PagesOrDefault(data))
    /\ pc' = "raised"
    /\ UNCHANGED <<caller, retries, backoff, attempt, outcomes, sleeps, data, page, reqs, resps, dbVars, allVars>>

\* the declared total is reached: break, return all_records
LoopEndsOnLastPage ==
    /\ pc = "check"
    /\ ~NoPage(data)
    /\ ~IntRaises(PagesOrDefault(data))
    /\ LastPage(page, IntOf(PagesOrDefault(data)))
    /\ all_records' = Extended(all_records, data.records)
    /\ pc' = "done"
    /\ UNCHANGED <<caller, retries, backoff, attempt, outcomes, sleeps, data, page, reqs,
                   resps, exc, dbVars, allVars>>

\* page += 1 and the next iteration calls get
LoopAdvances ==
    /\ pc = "check"
    /\ ~NoPage(data)
    /\ ~IntRaises(PagesOrDefault(data))
    /\ ~LastPage(page, IntOf(PagesOrDefault(data)))
    /\ all_records' = Extended(all_records, data.records)
    /\ page' = NextPage(page)
    /\ reqs' = IF page' <= MaxPage THEN Append(reqs, page') ELSE reqs
    /\ CallGet
    /\ pc' = "get"
    /\ UNCHANGED <<caller, retries, backoff, data, resps, exc, dbVars, allVars>>

\* ---------------------------------------------------- database.py: data
\* TABLE_MAP
TABLE_MAP == [gdp_growth |-> "raw_gdp_growth", unemployment |-> "raw_unemployment"]
Indicators == DOMAIN TABLE_MAP
\* the names save_raw_records is called with: the two known and one unknown
IndicatorNames == Indicators \cup {"inflation"}

RECURSIVE ListsUpTo(_, _)
ListsUpTo(S, n) ==
    IF n = 0 THEN {<<>>}
    ELSE LET shorter == ListsUpTo(S, n - 1)
         IN shorter \cup {Append(l, x) : l \in {m \in shorter : Len(m) = n - 1}, x \in S}

\* the lists save_raw_records is called with: every list of well-formed
\* records, and a malformed record alone, before and after a well-formed one
Batches ==
    ListsUpTo(GoodRecords, MaxBatch)
    \cup {<<m>> : m \in BadRecords}
    \cup {<<m, recA>> : m \in BadRecords}
    \cup {<<recA, m>> : m \in BadRecords}
\* gdp_growth is called with all of them, the other names with two
BatchesFor(ind) == IF ind = "gdp_growth" THEN Batches ELSE {<<>>, <<recA>>}

\* ------------------------------------------- save_raw_records: normalizing
\* dict.get(key): None when the key is absent
PyGet(f) == IF f.k = "absent" THEN NullF ELSE f
\* rec.get(obj, {}).get(key, ""): "" when the object or the key is absent
NestedGet(o, f) == IF o.k = "absent" \/ f.k = "absent" THEN Str("") ELSE f
\* truth value of None or a string
Truthy(v) == v.k = "str" /\ v.s # ""
\* truth value of year_str: "" is false, a non-empty string or list is true
DateTruthy(d) == (d.k = "str" /\ d.chars # <<>>) \/ d.k = "list"

\* rec.get("countryiso3code") or rec.get("country", {}).get("id", "")
Iso3Of(rec) ==
    IF Truthy(PyGet(rec.countryiso3code)) THEN rec.countryiso3code
    ELSE NestedGet(rec.country, rec.country.id)

\* .get on a nested object that is null: AttributeError
AttributeFails(rec) == rec.country.k = "null" \/ rec.indicator.k = "null"

\* if not iso3 or not year_str: continue
Skipped(rec) == ~Truthy(Iso3Of(rec)) \/ ~DateTruthy(rec.date)

\* int(year_str) for a string: surrounding blanks are stripped, then every
\* character must be a digit
DigitChars == <<"0", "1", "2", "3", "4", "5", "6", "7", "8", "9">>
IsDigit(c) == \E i \in 1..10 : DigitChars[i] = c
DigitOf(c) == (CHOOSE i \in 1..10 : DigitChars[i] = c) - 1
RECURSIVE Strip(_)
Strip(c) ==
    IF c = <<>> THEN c
    ELSE IF Head(c) = " " THEN Strip(Tail(c))
    ELSE IF c[Len(c)] = " " THEN Strip(SubSeq(c, 1, Len(c) - 1))
    ELSE c
IsInteger(c) == Strip(c) # <<>> /\ \A i \in 1..Len(Strip(c)) : IsDigit(Strip(c)[i])
RECURSIVE DigitsValue(_)
DigitsValue(c) ==
    IF c = <<>> THEN 0 ELSE DigitsValue(SubSeq(c, 1, Len(c) - 1)) * 10 + DigitOf(c[Len(c)])
ParseInt(c) == DigitsValue(Strip(c))

\* int(year_str) raises ValueError, which the loop catches: continue
YearInvalid(rec) == rec.date.k = "str" /\ ~IsInteger(rec.date.chars)
\* int(year_str) raises TypeError, which the loop does not catch
YearTypeFails(rec) == rec.date.k = "list"

\* the record makes the loop raise
RecordRaises(rec) == AttributeFails(rec) \/ (~Skipped(rec) /\ YearTypeFails(rec))
RecordError(rec) == IF AttributeFails(rec) THEN "AttributeError" ELSE "TypeError"
\* the record is passed over by one of the two continue statements
RecordDropped(rec) == Skipped(rec) \/ YearInvalid(rec)

\* rows.append((iso3, name, year, value, ind_id, ind_name, now))
RowOf(rec, now) ==
    [country_iso3 |-> Iso3Of(rec).s,
     country_name |-> NestedGet(rec.country, rec.country.value),
     year |-> ParseInt(rec.date.chars),
     value |-> rec.value,
     indicator_id |-> NestedGet(rec.indicator, rec.indicator.id),
     indicator_name |-> NestedGet(rec.indicator, rec.indicator.value),
     fetched_at |-> now]

\* the for loop over records, when no record raises
RECURSIVE Normalized(_, _)
Normalized(recs, now) ==
    IF recs = <<>> THEN <<>>
    ELSE LET rest == Normalized(Tail(recs), now)
         IN IF RecordDropped(Head(recs)) THEN rest ELSE <<RowOf(Head(recs), now)>> \o rest

NormalizeRaises(recs) == \E i \in 1..Len(recs) : RecordRaises(recs[i])
NormalizeError(recs) ==
    RecordError(recs[CHOOSE i \in 1..Len(recs) :
                        RecordRaises(recs[i]) /\ \A j \in 1..(i - 1) : ~RecordRaises(recs[j])])

\* -------------------------------------------------- PostgreSQL: the upsert
\* CHAR(3) stores the code padded with blanks to 3 characters
RECURSIVE Padded(_, _)
Padded(str, n) == IF Len(str) < n THEN Padded(str \o " ", n) ELSE str
Stored(r) == [r EXCEPT !.country_iso3 = Padded(@, 3)]

\* UNIQUE (country_iso3, year)
SameKey(x, y) == x.country_iso3 = y.country_iso3 /\ x.year = y.year

\* faulty variant: INSERT without the ON CONFLICT clause taking effect
InsertOnly(t, r) == t \cup {Stored(r)}

\* faulty variant: ON CONFLICT DO NOTHING, the stored row is kept
UpsertKeepsOld(t, r) ==
    IF \E x \in t : SameKey(x, Stored(r)) THEN t ELSE t \cup {Stored(r)}

\* INSERT ... ON CONFLICT (country_iso3, year) DO UPDATE SET ... = EXCLUDED....
Upsert(t, r) ==
    LET new == Stored(r)
        hit == {x \in t : SameKey(x, new)}
    IN IF hit = {} THEN t \cup {new}
       ELSE (t \ hit) \cup
            {[x EXCEPT !.country_name = new.country_name,
                       !.value = new.value,
                       !.indicator_id = new.indicator_id,
                       !.indicator_name = new.indicator_name,
                       !.fetched_at = new.fetched_at] : x \in hit}

\* one page of execute_batch: its statements run in order
RECURSIVE ExecuteAll(_, _)
ExecuteAll(t, rs) == IF rs = <<>> THEN t ELSE ExecuteAll(Upsert(t, Head(rs)), Tail(rs))

Min(a, b) == IF a <= b THEN a ELSE b
FirstPage(rs) == SubSeq(rs, 1, Min(PageSize, Len(rs)))
AfterFirstPage(rs) == SubSeq(rs, Min(PageSize, Len(rs)) + 1, Len(rs))

\* ------------------------------------------------------------- get_conn
\* faulty variant: the work done before the error is kept
RollbackKeepsWork(committed, working) == working

\* except Exception: conn.rollback()
Rollback(committed, working) == committed

\* conn.commit()
Committed(committed, working) == working

\* faulty variant: no finally clause, the connection is left open
ConnEndsUnclosed(log, ending) ==
    /\ conn' = "open"
    /\ connLog' = log \o ending

\* what follows the yield: commit, or rollback on an error, and finally
\* conn.close(); log is what the call did with the connection before
ConnEnds(log, ending) ==
    /\ conn' = "closed"
    /\ connLog' = log \o ending \o <<"close">>

\* the state outside any call: no connection, nothing pending
DbIdle ==
    /\ tables = [i \in Indicators |-> {}]
    /\ clock = 0
    /\ conn = "closed"
    /\ work = tables
    /\ pending = <<>>
    /\ args = [ind |-> "", recs |-> <<>>]
    /\ rows = <<>>
    /\ before = tables
    /\ pagesDone = 0
    /\ ret = [kind |-> "none", n |-> 0]
    /\ repeat = FALSE
    /\ connLog = <<>>
    /\ loaded = <<>>

\* ----------------------------------------------------- save_raw_records
\* the call begins, as a new call or as the repetition of the call that just
\* returned; what the history variables record
Called(ind, recs) ==
    /\ caller = "save_raw_records"
    /\ \/ pc = "idle"
       \/ pc = "ended" /\ ret.kind = "returned" /\ args = [ind |-> ind, recs |-> recs]
    /\ args' = [ind |-> ind, recs |-> recs]
    /\ before' = tables
    /\ repeat' = (pc = "ended")
    /\ pagesDone' = 0

\* the call ends without having opened a connection
EndsBeforeConnecting(kind, n, e) ==
    /\ ret' = [kind |-> kind, n |-> n]
    /\ exc' = e
    /\ pc' = "ended"
    /\ connLog' = <<>>
    /\ UNCHANGED <<caller, tables, conn, work, pending, loaded, fetchVars, allVars>>

\* faulty variant: the name is looked up inside the with block
SaveUnknownAfterConnect(ind, recs) ==
    /\ Called(ind, recs)
    /\ ind \notin Indicators
    /\ rows' = <<>>
    /\ ret' = [kind |-> "raised", n |-> 0]
    /\ exc' = "ValueError"
    /\ pc' = "ended"
    /\ ConnEnds(<<"connect">>, <<"rollback">>)
    /\ UNCHANGED <<caller, tables, clock, work, pending, loaded, fetchVars, allVars>>

\* TABLE_MAP.get(indicator_name) is None: raise ValueError
SaveUnknownIndicator(ind, recs) ==
    /\ Called(ind, recs)
    /\ ind \notin Indicators
    /\ rows' = <<>>
    /\ EndsBeforeConnecting("raised", 0, "ValueError")
    /\ UNCHANGED clock

\* a record makes the normalizing loop raise
SaveNormalizeRaises(ind, recs) ==
    /\ Called(ind, recs)
    /\ ind \in Indicators
    /\ NormalizeRaises(recs)
    /\ \E now \in clock..MaxClock : clock' = now
    /\ rows' = <<>>
    /\ EndsBeforeConnecting("raised", 0, NormalizeError(recs))

\* faulty variant: no early return, an empty batch is executed and committed
SaveNoRowsConnects(ind, recs) ==
    /\ Called(ind, recs)
    /\ ind \in Indicators
    /\ ~NormalizeRaises(recs)
    /\ \E now \in clock..MaxClock :
        /\ clock' = now
        /\ rows' = Normalized(recs, now)
    /\ rows' = <<>>
    /\ ret' = [kind |-> "returned", n |-> 0]
    /\ exc' = ""
    /\ pc' = "ended"
    /\ ConnEnds(<<"connect">>, <<"commit">>)
    /\ UNCHANGED <<caller, tables, work, pending, loaded, fetchVars, allVars>>

\* if not rows: return 0
SaveNoRows(ind, recs) ==
    /\ Called(ind, recs)
    /\ ind \in Indicators
    /\ ~NormalizeRaises(recs)
    /\ \E now \in clock..MaxClock :
        /\ clock' = now
        /\ rows' = Normalized(recs, now)
    /\ rows' = <<>>
    /\ EndsBeforeConnecting("returned", 0, "")

\* psycopg2.connect raises: nothing was opened, the error leaves the call
SaveConnectFails(ind, recs) ==
    /\ Called(ind, recs)
    /\ ind \in Indicators
    /\ ~NormalizeRaises(recs)
    /\ \E now \in clock..MaxClock :
        /\ clock' = now
        /\ rows' = Normalized(recs, now)
    /\ rows' # <<>>
    /\ EndsBeforeConnecting("raised", 0, "OperationalError")

\* with get_conn() as conn: the connection opens, its transaction begins
SaveConnects(ind, recs) ==
    /\ Called(ind, recs)
    /\ ind \in Indicators
    /\ ~NormalizeRaises(recs)
    /\ \E now \in clock..MaxClock :
        /\ clock' = now
        /\ rows' = Normalized(recs, now)
    /\ rows' # <<>>
    /\ conn' = "open"
    /\ connLog' = <<"connect">>
    /\ work' = tables
    /\ pending' = rows'
    /\ pc' = "exec"
    /\ exc' = ""
    /\ UNCHANGED <<caller, tables, ret, loaded, fetchVars, allVars>>

\* execute_batch sends its next page of statements
ExecPage ==
    /\ caller = "save_raw_records"
    /\ pc = "exec"
    /\ pending # <<>>
    /\ work' = [work EXCEPT ![args.ind] = ExecuteAll(@, FirstPage(pending))]
    /\ pending' = AfterFirstPage(pending)
    /\ pagesDone' = pagesDone + 1
    /\ UNCHANGED <<caller, pc, exc, tables, clock, conn, args, rows, before, ret, repeat,
                   connLog, loaded, fetchVars, allVars>>

\* the call leaves the with block: nothing is pending, the call ends
Leaves(kind, n, e) ==
    /\ work' = tables'
    /\ pending' = <<>>
    /\ ret' = [kind |-> kind, n |-> n]
    /\ exc' = e
    /\ pc' = "ended"
    /\ UNCHANGED <<caller, clock, args, rows, before, pagesDone, repeat, loaded, fetchVars,
                   allVars>>

\* the next page fails in the database: rollback, raise, close
ExecPageFails ==
    /\ caller = "save_raw_records"
    /\ pc = "exec"
    /\ pending # <<>>
    /\ tables' = Rollback(tables, work)
    /\ ConnEnds(connLog, <<"rollback">>)
    /\ Leaves("raised", 0, "DatabaseError")

\* faulty variant: the rows the table gained are returned
SaveCommitsCountsNewRows ==
    /\ caller = "save_raw_records"
    /\ pc = "exec"
    /\ pending = <<>>
    /\ tables' = Committed(tables, work)
    /\ ConnEnds(connLog, <<"commit">>)
    /\ Leaves("returned", Cardinality(work[args.ind]) - Cardinality(tables[args.ind]), "")

\* every page was sent: commit, close, return len(rows)
SaveCommits ==
    /\ caller = "save_raw_records"
    /\ pc = "exec"
    /\ pending = <<>>
    /\ tables' = Committed(tables, work)
    /\ ConnEnds(connLog, <<"commit">>)
    /\ Leaves("returned", Len(rows), "")

\* conn.commit() raises: rollback, raise, close
CommitFails ==
    /\ caller = "save_raw_records"
    /\ pc = "exec"
    /\ pending = <<>>
    /\ tables' = Rollback(tables, work)
    /\ ConnEnds(connLog, <<"commit", "rollback">>)
    /\ Leaves("raised", 0, "DatabaseError")

\* the caller goes on to its next call: the finished call's history is dropped
Resume ==
    /\ caller \in {"save_raw_records", "load_raw_records"}
    /\ pc = "ended"
    /\ caller' = "save_raw_records"
    /\ pc' = "idle"
    /\ exc' = ""
    /\ args' = [ind |-> "", recs |-> <<>>]
    /\ rows' = <<>>
    /\ before' = tables
    /\ pagesDone' = 0
    /\ ret' = [kind |-> "none", n |-> 0]
    /\ repeat' = FALSE
    /\ connLog' = <<>>
    /\ loaded' = <<>>
    /\ UNCHANGED <<tables, clock, conn, work, pending, fetchVars, allVars>>

\* ----------------------------------------------------- load_raw_records
\* ORDER BY country_iso3, year: the stored codes of the model, ascending
CodesInOrder == <<"KE ", "KEN">>
CodeRank(c) == CHOOSE i \in 1..Len(CodesInOrder) : CodesInOrder[i] = c

\* faulty variant: ORDER BY country_iso3, year DESC
RowBeforeNewestFirst(x, y) ==
    \/ CodeRank(x.country_iso3) < CodeRank(y.country_iso3)
    \/ (x.country_iso3 = y.country_iso3 /\ x.year >= y.year)

RowBefore(x, y) ==
    \/ CodeRank(x.country_iso3) < CodeRank(y.country_iso3)
    \/ (x.country_iso3 = y.country_iso3 /\ x.year <= y.year)
RECURSIVE Ordered(_)
Ordered(t) ==
    IF t = {} THEN <<>>
    ELSE LET first == CHOOSE x \in t : \A y \in t : RowBefore(x, y)
         IN <<first>> \o Ordered(t \ {first})

\* the call begins and, being one statement long, ends; what the history
\* variables record
LoadCalled(ind) ==
    /\ caller = "save_raw_records"
    /\ pc = "idle"
    /\ caller' = "load_raw_records"
    /\ pc' = "ended"
    /\ args' = [ind |-> ind, recs |-> <<>>]
    /\ before' = tables
    /\ UNCHANGED <<tables, clock, work, pending, rows, pagesDone, repeat, fetchVars, allVars>>

\* TABLE_MAP.get(indicator_name) is None: raise ValueError
LoadUnknownIndicator(ind) ==
    /\ LoadCalled(ind)
    /\ ind \notin Indicators
    /\ loaded' = <<>>
    /\ ret' = [kind |-> "raised", n |-> 0]
    /\ exc' = "ValueError"
    /\ UNCHANGED <<conn, connLog>>

\* connect, SELECT * ... ORDER BY country_iso3, year, commit, close
LoadReturns(ind) ==
    /\ LoadCalled(ind)
    /\ ind \in Indicators
    /\ loaded' = Ordered(tables[ind])
    /\ ret' = [kind |-> "returned", n |-> Len(loaded')]
    /\ exc' = ""
    /\ ConnEnds(<<"connect">>, <<"commit">>)

\* psycopg2.connect raises, or the SELECT or the commit does: rollback,
\* raise, close
LoadFails(ind) ==
    /\ LoadCalled(ind)
    /\ ind \in Indicators
    /\ loaded' = <<>>
    /\ ret' = [kind |-> "raised", n |-> 0]
    /\ \/ exc' = "OperationalError" /\ UNCHANGED <<conn, connLog>>
       \/ exc' = "DatabaseError" /\ ConnEnds(<<"connect">>, <<"rollback">>)
       \/ exc' = "DatabaseError" /\ ConnEnds(<<"connect">>, <<"commit", "rollback">>)

\* ------------------------------------------------ fetch_all_african_data
\* results = {name: [] for name in INDICATORS}, done = 0, before the loops
AllIdle ==
    /\ country = 1
    /\ ind_name = 1
    /\ results = [n \in {INDICATORS[i].name : i \in 1..Len(INDICATORS)} |-> <<>>]
    /\ done = 0
    /\ events = <<>>

CallEvent(c, i) == [e |-> "call", country |-> Countries[c], indicator |-> INDICATORS[i].code]
ReturnEvent(recs) == [e |-> "return", records |-> recs]
SleepEvent == [e |-> "sleep", ms |-> RequestDelay]

LastPair == country = Len(Countries) /\ ind_name = Len(INDICATORS)

\* fetch_indicator returned: results[ind_name].extend(records), done += 1,
\* time.sleep(0.15)
PairEnds ==
    /\ caller = "fetch_all_african_data"
    /\ pc = "done"
    /\ results' = [results EXCEPT ![INDICATORS[ind_name].name] = @ \o all_records]
    /\ done' = done + 1

\* the loops go on to the next pair: fetch_indicator is called
NextPairIsCalled ==
    /\ PairEnds
    /\ ~LastPair
    /\ ind_name' = IF ind_name < Len(INDICATORS) THEN ind_name + 1 ELSE 1
    /\ country' = IF ind_name < Len(INDICATORS) THEN country ELSE country + 1
    /\ events' = events \o <<ReturnEvent(all_records), SleepEvent, CallEvent(country', ind_name')>>
    /\ page' = 1
    /\ all_records' = <<>>
    /\ reqs' = <<1>>
    /\ resps' = <<>>
    /\ CallGet
    /\ pc' = "get"
    /\ UNCHANGED <<caller, retries, backoff, data, exc, dbVars>>

\* the loops are over: return results
AllReturns ==
    /\ PairEnds
    /\ LastPair
    /\ events' = events \o <<ReturnEvent(all_records), SleepEvent>>
    /\ pc' = "returned"
    /\ UNCHANGED <<caller, country, ind_name, exc, fetchVars, dbVars>>

\* ------------------------------------------------------------ the pipeline
\* fetch_indicator returned: its records are handed to save_raw_records
SavesFetched ==
    /\ caller = "pipeline"
    /\ pc = "done"
    /\ caller' = "save_raw_records"
    /\ pc' = "idle"
    /\ UNCHANGED <<exc, fetchVars, dbVars, allVars>>

\* rows stored by earlier runs
RowsStoredBefore == {Stored(RowOf(recB, 0)), Stored(RowOf(recD, 0))}

\* ------------------------------------------------------------ the machine
Init ==
    /\ caller \in {"get", "fetch_indicator"}
    /\ IF caller = "get"
         THEN retries \in 0..MaxRetries /\ backoff \in 1..MaxBackoff
         ELSE retries = DefaultRetries /\ backoff = DefaultBackoff
    /\ pc = "get"
    /\ attempt = 1
    /\ outcomes = <<>>
    /\ sleeps = <<>>
    /\ data = Failure
    /\ page = 1
    /\ all_records = <<>>
    /\ reqs = IF caller = "fetch_indicator" THEN <<1>> ELSE <<>>
    /\ resps = <<>>
    /\ exc = ""
    /\ DbIdle
    /\ AllIdle

Next ==
    \/ GetSucceeds
    \/ GetFails
    \/ GetGivesUp
    \/ LoopBreaksOnFailure
    \/ LoopRaises
    \/ LoopEndsOnLastPage
    \/ LoopAdvances

Spec == Init /\ [][Next]_vars

FairSpec == Spec /\ WF_vars(Next)

InitDb ==
    /\ caller = "save_raw_records"
    /\ pc = "idle"
    /\ exc = ""
    /\ retries = DefaultRetries
    /\ backoff = DefaultBackoff
    /\ attempt = 1
    /\ outcomes = <<>>
    /\ sleeps = <<>>
    /\ data = Failure
    /\ page = 1
    /\ all_records = <<>>
    /\ reqs = <<>>
    /\ resps = <<>>
    /\ DbIdle
    /\ AllIdle

NextDb ==
    \/ \E ind \in IndicatorNames : \E recs \in BatchesFor(ind) :
        \/ SaveUnknownIndicator(ind, recs)
        \/ SaveNormalizeRaises(ind, recs)
        \/ SaveNoRows(ind, recs)
        \/ SaveConnectFails(ind, recs)
        \/ SaveConnects(ind, recs)
    \/ ExecPage
    \/ ExecPageFails
    \/ SaveCommits
    \/ CommitFails
    \/ \E ind \in IndicatorNames :
        \/ LoadUnknownIndicator(ind)
        \/ LoadReturns(ind)
        \/ LoadFails(ind)
    \/ Resume

SpecDb == InitDb /\ [][NextDb]_vars

InitAll ==
    /\ caller = "fetch_all_african_data"
    /\ pc = "get"
    /\ exc = ""
    /\ retries = DefaultRetries
    /\ backoff = DefaultBackoff
    /\ attempt = 1
    /\ outcomes = <<>>
    /\ sleeps = <<>>
    /\ data = Failure
    /\ page = 1
    /\ all_records = <<>>
    /\ reqs = <<1>>
    /\ resps = <<>>
    /\ DbIdle
    /\ country = 1
    /\ ind_name = 1
    /\ results = [n \in {INDICATORS[i].name : i \in 1..Len(INDICATORS)} |-> <<>>]
    /\ done = 0
    /\ events = <<CallEvent(1, 1)>>

NextAll ==
    \/ GetSucceeds
    \/ GetFails
    \/ GetGivesUp
    \/ LoopBreaksOnFailure
    \/ LoopRaises
    \/ LoopEndsOnLastPage
    \/ LoopAdvances
    \/ NextPairIsCalled
    \/ AllReturns

SpecAll == InitAll /\ [][NextAll]_vars

InitE2E ==
    /\ caller = "pipeline"
    /\ pc = "get"
    /\ exc = ""
    /\ retries = DefaultRetries
    /\ backoff = DefaultBackoff
    /\ attempt = 1
    /\ outcomes = <<>>
    /\ sleeps = <<>>
    /\ data = Failure
    /\ page = 1
    /\ all_records = <<>>
    /\ reqs = <<1>>
    /\ resps = <<>>
    /\ \E stored \in SUBSET RowsStoredBefore :
        tables = [i \in Indicators |-> IF i = "gdp_growth" THEN stored ELSE {}]
    /\ clock = 0
    /\ conn = "closed"
    /\ work = tables
    /\ pending = <<>>
    /\ args = [ind |-> "", recs |-> <<>>]
    /\ rows = <<>>
    /\ before = tables
    /\ pagesDone = 0
    /\ ret = [kind |-> "none", n |-> 0]
    /\ repeat = FALSE
    /\ connLog = <<>>
    /\ loaded = <<>>
    /\ AllIdle

NextE2E ==
    \/ GetSucceeds
    \/ GetFails
    \/ GetGivesUp
    \/ LoopBreaksOnFailure
    \/ LoopRaises
    \/ LoopEndsOnLastPage
    \/ LoopAdvances
    \/ SavesFetched
    \/ SaveNoRows("gdp_growth", all_records)
    \/ SaveConnectFails("gdp_growth", all_records)
    \/ SaveConnects("gdp_growth", all_records)
    \/ ExecPage
    \/ ExecPageFails
    \/ SaveCommits
    \/ CommitFails
    \/ LoadReturns("gdp_growth")
    \/ LoadFails("gdp_growth")
    \/ Resume

SpecE2E == InitE2E /\ [][NextE2E]_vars

\* ------------------------------------------------------------- properties
Fetching == caller = "fetch_indicator"
Returned == pc = "done"
Ended == pc \in {"done", "raised"}

\* every logged page lies in 1..MaxPage, where the logs are complete
InLog == page <= MaxPage

\* a response that is a [metadata, records] list
IsPage(d) == d.t = "list" /\ d.elems = 2
\* a response that is a Failure or has fewer than two top-level elements
IsFailureOrShort(d) == d.t = "None" \/ (d.t = "list" /\ d.elems < 2)

AllDeclare(P) ==
    \A i \in 1..Len(resps) : IsPage(resps[i]) /\ resps[i].pages = [k |-> "int", n |-> P]

RECURSIVE RecordsOfPages(_)
RecordsOfPages(n) ==
    IF n = 0 THEN <<>>
    ELSE RecordsOfPages(n - 1)
         \o (IF resps[n].records.k = "list" THEN resps[n].records.items ELSE <<>>)

\* C1: when every page request succeeds with a [metadata, records] response
\* declaring the same page count P, fetch_indicator requests pages 1, 2, ...
\* in increasing order, never more than max(1, P) of them, and when it has
\* ended it has returned after exactly max(1, P) requests.
PaginationExact ==
    (Fetching /\ InLog) =>
        \A P \in PagesInts :
            AllDeclare(P) =>
                /\ reqs = [i \in 1..Len(reqs) |-> i]
                /\ Len(reqs) <= Max(1, P)
                /\ (Ended /\ Len(resps) = Len(reqs)) => (Returned /\ Len(reqs) = Max(1, P))

PaginationExactWitness ==
    /\ Fetching /\ Returned /\ InLog
    /\ AllDeclare(MaxPage)
    /\ reqs = [i \in 1..MaxPage |-> i]
    /\ Len(resps) = MaxPage

\* C2: fetch_indicator terminates for every sequence of page responses: every
\* run eventually returns (or leaves by an exception).
FetchTerminates == <>Ended

\* C3: a get call makes at most `retries` attempts, all but the last of them
\* failed; when it has returned after failures only, it made exactly `retries`
\* attempts and returned None; when its last attempt succeeded, it returned
\* that attempt's JSON; get itself never raises.
GetRetryContract ==
    LET n == Len(outcomes) IN
    /\ n <= retries
    /\ \A i \in 1..(n - 1) : ~outcomes[i].ok
    /\ pc = "get" => (n = attempt - 1 /\ \A i \in 1..n : ~outcomes[i].ok)
    /\ pc # "get" =>
        /\ (\A i \in 1..n : ~outcomes[i].ok) => (n = retries /\ data = Failure)
        /\ (n > 0 /\ outcomes[n].ok) => data = outcomes[n].json
    /\ caller = "get" => exc = ""

GetRetryWitness ==
    /\ caller = "get" /\ Returned
    /\ retries = DefaultRetries
    /\ Len(outcomes) = DefaultRetries
    /\ \A i \in 1..Len(outcomes) : ~outcomes[i].ok
    /\ data = Failure

\* a page whose metadata declares no usable page count
IsAnomalous(d) ==
    /\ IsPage(d)
    /\ \/ d.pages.k \in {"absent", "null", "str"}
       \/ (d.pages.k = "int" /\ d.pages.n <= 0)

\* C8: a page whose metadata declares a missing or inconsistent page count
\* (absent, null, non-integer, zero or negative) is the last page requested,
\* its records are kept, and fetch_indicator returns normally.
AnomalousTotalIsOnePage ==
    (Fetching /\ InLog) =>
        \A i \in 1..Len(resps) :
            IsAnomalous(resps[i]) =>
                /\ i = Len(reqs)
                /\ ~(pc = "raised")
                /\ Returned => all_records = RecordsOfPages(i)

\* C9: the first page n whose response is a Failure or has fewer than two
\* top-level elements is the last page requested, nothing is raised, and the
\* records held (and returned) are those of pages 1..n-1 in order.
StopsAtFirstFailedPage ==
    (Fetching /\ InLog) =>
        \A i \in 1..Len(resps) :
            IsFailureOrShort(resps[i]) =>
                /\ i = Len(reqs)
                /\ reqs = [k \in 1..i |-> k]
                /\ pc \in {"check", "done"}
                /\ exc = ""
                /\ all_records = RecordsOfPages(i - 1)

StopsAtFirstFailedPageWitness ==
    /\ Fetching /\ Returned /\ InLog
    /\ Len(resps) = MaxPage
    /\ IsFailureOrShort(resps[MaxPage])
    /\ Len(all_records) = 3
    /\ all_records = RecordsOfPages(MaxPage - 1)

\* the total a page declares, 1 when it declares none
DeclaredTotal(d) == IF d.pages.k = "absent" THEN 1 ELSE d.pages.n
AllDeclareIntegers ==
    \A i \in 1..Len(resps) : IsPage(resps[i]) /\ resps[i].pages.k \in {"absent", "int", "numstr"}

\* C10 as stated: the number of page requests is the total declared on
\* page 1, whatever later pages declare.
TotalLearnedFromFirstPage ==
    (Fetching /\ InLog /\ Returned /\ AllDeclareIntegers) =>
        Len(reqs) = Max(1, DeclaredTotal(resps[1]))

\* C10 as amended: the total is read again from every page: every page before
\* the last one requested declared a total above its own number, and
\* fetch_indicator returns at the first page n that declares a total <= n.
StopsByCurrentPageTotal ==
    (Fetching /\ InLog /\ AllDeclareIntegers) =>
        /\ \A i \in 1..(Len(reqs) - 1) : DeclaredTotal(resps[i]) > i
        /\ Returned =>
            /\ Len(resps) = Len(reqs)
            /\ DeclaredTotal(resps[Len(reqs)]) <= Len(reqs)

StopsByCurrentPageTotalWitness ==
    /\ Fetching /\ InLog /\ Returned /\ AllDeclareIntegers
    /\ Len(reqs) = 2
    /\ DeclaredTotal(resps[1]) = 3
    /\ DeclaredTotal(resps[2]) = 2

\* the waits of get's default parameters
DefaultWaits == <<2, 4, 8>>

\* C19: in get, the k-th failed attempt is followed by a wait of backoff to
\* the power k (2, 4, 8 with the defaults); every failed attempt is followed
\* by its wait, the last one too, so that a call whose attempts all failed
\* has waited retries times before it returns the Failure.
WaitsAfterEveryFailure ==
    /\ Len(sleeps) = Cardinality({i \in 1..Len(outcomes) : ~outcomes[i].ok})
    /\ \A k \in 1..Len(sleeps) :
        /\ ~outcomes[k].ok
        /\ sleeps[k] = (IF k = 1 THEN backoff ELSE sleeps[k - 1] * backoff)
        /\ (backoff = DefaultBackoff /\ k <= Len(DefaultWaits)) => sleeps[k] = DefaultWaits[k]
    /\ (pc # "get" /\ \A i \in 1..Len(outcomes) : ~outcomes[i].ok) =>
        /\ Len(sleeps) = retries
        /\ data = Failure

\* get(url) with its defaults failed three times and waited 2, 4 and 8
WaitsAfterEveryFailureWitness ==
    /\ caller = "get" /\ Returned
    /\ retries = DefaultRetries /\ backoff = DefaultBackoff
    /\ sleeps = DefaultWaits
    /\ data = Failure

\* ------------------------------------------------- properties of the store
Saving == caller = "save_raw_records"
SaveEnded == Saving /\ pc = "ended"
SaveReturned == SaveEnded /\ ret.kind = "returned"
SaveRaised == SaveEnded /\ ret.kind = "raised"

\* the key a record is stored under
KeyOf(r) == <<Padded(r.country_iso3, 3), r.year>>
\* the positions of the call's rows that no later row of the call overrides
LastOfKey == {j \in 1..Len(rows) : \A m \in (j + 1)..Len(rows) : KeyOf(rows[m]) # KeyOf(rows[j])}
KeysWritten == {KeyOf(rows[j]) : j \in 1..Len(rows)}

\* C4: each indicator table holds at most one row per (country_iso3, year),
\* and after a call that returned, the target table holds, for every key the
\* call wrote, exactly the last row of the call with that key (name, value,
\* indicator id and name, fetch timestamp), every other row as it was before,
\* and the other table is as it was.
LastWriteWins ==
    /\ \A i \in Indicators : \A x, y \in tables[i] : SameKey(x, y) => x = y
    /\ (SaveReturned /\ rows # <<>>) =>
        /\ tables[args.ind] =
              {[rows[j] EXCEPT !.country_iso3 = KeyOf(rows[j])[1]] : j \in LastOfKey}
              \cup {x \in before[args.ind] : KeyOf(x) \notin KeysWritten}
        /\ \A i \in Indicators \ {args.ind} : tables[i] = before[i]

\* a call wrote the same key twice, over a row another call had stored
LastWriteWinsWitness ==
    /\ SaveReturned
    /\ Len(rows) = 2
    /\ KeyOf(rows[1]) = KeyOf(rows[2])
    /\ rows[1].value # rows[2].value
    /\ \E x \in before[args.ind] : KeyOf(x) = KeyOf(rows[1]) /\ x.fetched_at < rows[1].fetched_at
    /\ Cardinality(tables[args.ind]) = 1

WithoutTime(t) ==
    {[country_iso3 |-> x.country_iso3, country_name |-> x.country_name, year |-> x.year,
      value |-> x.value, indicator_id |-> x.indicator_id,
      indicator_name |-> x.indicator_name] : x \in t}

\* C5 as stated: a call repeated with identical records leaves every table
\* with the row count and the content it had after the first call.
RepeatLeavesTablesIdentical ==
    (SaveReturned /\ repeat) => tables = before

\* C5 as amended: a call repeated with identical records leaves every table
\* with the same row count and, apart from fetched_at, the same content; the
\* rows it wrote carry the second call's timestamp, the others are untouched.
RepeatIsIdempotentButForTime ==
    (SaveReturned /\ repeat) =>
        /\ \A i \in Indicators :
            /\ Cardinality(tables[i]) = Cardinality(before[i])
            /\ WithoutTime(tables[i]) = WithoutTime(before[i])
        /\ \A x \in tables[args.ind] :
            IF KeyOf(x) \in KeysWritten THEN x.fetched_at = rows[1].fetched_at
            ELSE x \in before[args.ind]
        /\ \A i \in Indicators \ {args.ind} : tables[i] = before[i]

RepeatIsIdempotentWitness ==
    /\ SaveReturned /\ repeat
    /\ Len(rows) = 2
    /\ Cardinality(tables[args.ind]) = 2
    /\ tables # before

\* C6: nothing a call writes is visible before it commits, and a call that
\* fails in the database, at whichever page or at the commit, leaves every
\* table as it was before the call and ends with the error raised.
SaveIsAllOrNothing ==
    /\ (Saving /\ pc = "exec") => tables = before
    /\ (SaveEnded /\ pagesDone > 0 /\ ~(ret.kind = "returned")) =>
        /\ tables = before
        /\ ret.kind = "raised"
        /\ exc = "DatabaseError"
    /\ SaveRaised => tables = before /\ exc # ""

\* the second page failed after the first had been executed
SaveIsAllOrNothingWitness ==
    /\ SaveRaised
    /\ exc = "DatabaseError"
    /\ pagesDone = 1
    /\ Len(rows) > pagesDone * PageSize
    /\ conn = "closed"
    /\ before[args.ind] # {}
    /\ tables = before

\* a record whose key fields are present and parse
KeyFieldsValid(rec) ==
    /\ \/ Truthy(PyGet(rec.countryiso3code))
       \/ (rec.country.k = "obj" /\ Truthy(PyGet(rec.country.id)))
    /\ rec.date.k = "str"
    /\ IsInteger(rec.date.chars)

\* C7: no record with missing or unparseable key fields makes the call
\* raise, and every record whose key fields are valid is normalized: the
\* call's rows are as many as the valid records of its list.
MalformedNeverAborts ==
    (SaveEnded /\ args.ind \in Indicators) =>
        /\ exc \notin {"AttributeError", "TypeError"}
        /\ Len(rows) = Cardinality({j \in 1..Len(args.recs) : KeyFieldsValid(args.recs[j])})

\* ------------------------------------- properties of the normalizing loop
\* the ISO3 code the record resolves to: the direct field, else the nested
\* country id, else none
ResolvedIso3(rec) ==
    IF rec.countryiso3code.k = "str" /\ rec.countryiso3code.s # "" THEN rec.countryiso3code.s
    ELSE IF rec.country.k = "obj" /\ rec.country.id.k = "str" THEN rec.country.id.s
    ELSE ""
YearParses(rec) == rec.date.k = "str" /\ IsInteger(rec.date.chars)
Rejected(rec) == ResolvedIso3(rec) = "" \/ rec.date.k = "absent" \/ ~YearParses(rec)
Accepted(rec) == ~Rejected(rec)

\* C13: a record is rejected if and only if its resolved ISO3 code is empty,
\* its year is absent or its year does not parse as an integer: no record
\* makes the call raise, and the call's rows are, in order, one row for every
\* other record, with the resolved code, the parsed year and the value as it
\* was (null stays null).
RejectsExactlyInvalidRecords ==
    (SaveEnded /\ args.ind \in Indicators) =>
        LET kept == SelectSeq(args.recs, Accepted) IN
        /\ exc \notin {"AttributeError", "TypeError"}
        /\ Len(rows) = Len(kept)
        /\ \A j \in 1..Len(rows) :
            /\ rows[j].country_iso3 = ResolvedIso3(kept[j])
            /\ rows[j].year = ParseInt(kept[j].date.chars)
            /\ rows[j].value = kept[j].value

\* C14: every row the call normalized has a country_iso3 that is non-empty
\* and exactly 3 characters long, whichever field it was resolved from.
Iso3IsThreeLetters ==
    (SaveEnded /\ args.ind \in Indicators) =>
        \A j \in 1..Len(rows) :
            /\ rows[j].country_iso3 # ""
            /\ Len(rows[j].country_iso3) = 3

\* ------------------------------------------- properties of the connection
DbEnded == caller \in {"save_raw_records", "load_raw_records"} /\ pc = "ended"

\* C15: save_raw_records and load_raw_records called with an unknown
\* indicator name raise ValueError having opened no connection, normalized
\* no record and read or written nothing: both tables are as they were.
UnknownIndicatorFailsFast ==
    (DbEnded /\ args.ind \notin Indicators) =>
        /\ ret.kind = "raised"
        /\ exc = "ValueError"
        /\ connLog = <<>>
        /\ conn = "closed"
        /\ rows = <<>>
        /\ loaded = <<>>
        /\ tables = before

\* save_raw_records("inflation", [a valid record]) on a table that holds rows
UnknownIndicatorFailsFastWitness ==
    /\ SaveEnded
    /\ args = [ind |-> "inflation", recs |-> <<recA>>]
    /\ exc = "ValueError"
    /\ tables["gdp_growth"] # {}

Occurrences(log, e) == Cardinality({i \in 1..Len(log) : log[i] = e})
OpenConnections == Occurrences(connLog, "connect") - Occurrences(connLog, "close")

\* C16: a connection is open only inside the with block of the one call in
\* progress; when a call has ended, on a return, on an error in the block or
\* on an error of the commit, the connection it opened was committed or
\* rolled back and then closed; never is more than one connection open.
ConnectionAlwaysReleased ==
    /\ OpenConnections = (IF conn = "open" THEN 1 ELSE 0)
    /\ conn = "open" => pc = "exec"
    /\ pc \in {"idle", "ended"} =>
        /\ conn = "closed"
        /\ connLog \in {<<>>,
                        <<"connect", "commit", "close">>,
                        <<"connect", "rollback", "close">>,
                        <<"connect", "commit", "rollback", "close">>}
        /\ (ret.kind = "returned" /\ connLog # <<>>) => connLog = <<"connect", "commit", "close">>
        /\ (ret.kind = "raised" /\ connLog # <<>>) => Occurrences(connLog, "rollback") = 1
        /\ pc = "idle" => connLog = <<>>

\* the commit of a save failed: rollback, then close
ConnectionAlwaysReleasedWitness ==
    /\ SaveRaised
    /\ pagesDone > 0
    /\ connLog = <<"connect", "commit", "rollback", "close">>
    /\ conn = "closed"

RowsGained == Cardinality(tables[args.ind]) - Cardinality(before[args.ind])
\* the call's rows carry pairwise distinct keys, none of them stored before
AllKeysNew ==
    /\ \A j, m \in 1..Len(rows) : KeyOf(rows[j]) = KeyOf(rows[m]) => j = m
    /\ \A x \in before[args.ind] : KeyOf(x) \notin KeysWritten

\* C20: the count a call returns is the number of its records that passed
\* validation, not the number of keys it wrote: it is never below the number
\* of rows the table gained, and equals it only when the valid records carry
\* pairwise distinct keys none of which was stored.
ReturnsCountOfValidRecords ==
    SaveReturned =>
        /\ ret.n = Cardinality({j \in 1..Len(args.recs) : KeyFieldsValid(args.recs[j])})
        /\ RowsGained <= ret.n
        /\ (RowsGained = ret.n) <=> AllKeysNew

\* three valid records, two with the same key, the third's key stored before
ReturnsCountOfValidRecordsWitness ==
    /\ SaveReturned
    /\ ret.n = 3
    /\ RowsGained = 1
    /\ Cardinality(KeysWritten) = 2

\* ------------------------------------ properties of fetch_all_african_data
FetchingAll == caller = "fetch_all_african_data"
AllEnded == FetchingAll /\ pc \in {"returned", "raised"}
Positions(e) == {i \in 1..Len(events) : events[i].e = e}

\* C11: between any two consecutive calls of fetch_indicator there is exactly
\* one sleep of the fixed delay, and every pair is followed by the delay
\* whatever its outcome: when fetch_all_african_data has ended, it has slept
\* once for every call of fetch_indicator it made.
DelayAfterEveryPair ==
    FetchingAll =>
        /\ \A i \in Positions("sleep") : events[i].ms = RequestDelay
        /\ \A i, j \in Positions("call") :
            (i < j /\ \A m \in (i + 1)..(j - 1) : m \notin Positions("call")) =>
                Cardinality({m \in (i + 1)..(j - 1) : m \in Positions("sleep")}) = 1
        /\ AllEnded => Cardinality(Positions("sleep")) = Cardinality(Positions("call"))

\* the pairs of AFRICAN_COUNTRIES x INDICATORS, country-major
NumPairs == Len(Countries) * Len(INDICATORS)
PairAt(k) ==
    CallEvent(((k - 1) \div Len(INDICATORS)) + 1, ((k - 1) % Len(INDICATORS)) + 1)
CallsMade == SelectSeq(events, LAMBDA ev : ev.e = "call")
ReturnsMade == SelectSeq(events, LAMBDA ev : ev.e = "return")
\* the records returned for one indicator code, in the order of the calls
RECURSIVE ReturnedFor(_, _)
ReturnedFor(code, n) ==
    IF n = 0 THEN <<>>
    ELSE ReturnedFor(code, n - 1)
         \o (IF CallsMade[n].indicator = code THEN ReturnsMade[n].records ELSE <<>>)

\* C12: fetch_indicator is called one pair at a time, in country-major order,
\* and when fetch_all_african_data has ended it was called exactly once for
\* every pair of the cross product, whether or not a pair yielded records,
\* and the result of every indicator name is the concatenation, in country
\* order, of the records returned for that indicator.
EveryPairFetchedOnce ==
    FetchingAll =>
        /\ Len(CallsMade) <= NumPairs
        /\ \A k \in 1..Len(CallsMade) : CallsMade[k] = PairAt(k)
        /\ AllEnded =>
            /\ Len(CallsMade) = NumPairs
            /\ Len(ReturnsMade) = NumPairs
            /\ \A i \in 1..Len(INDICATORS) :
                results[INDICATORS[i].name] = ReturnedFor(INDICATORS[i].code, NumPairs)

\* ------------------------------------------------ properties of the pipeline
\* fetch_indicator has returned and what followed were calls of database.py
FetchReturned == caller \in {"pipeline", "save_raw_records", "load_raw_records"} /\ pc \notin {"get", "check", "raised"}
\* page 1 declared 2 pages and held the records of 2022 and 2021, page 2
\* held the record of 2020
PageOf(total, recs) ==
    [t |-> "list", elems |-> 2, pages |-> [k |-> "int", n |-> total],
     records |-> [k |-> "list", items |-> recs]]
TwoPagesFetched == resps = <<PageOf(2, <<recK22, recK21>>), PageOf(2, <<recA>>)>>
NoneStoredBefore ==
    \A x \in before["gdp_growth"] : \A j \in 1..Len(rows) : KeyOf(x) # KeyOf(rows[j])
\* the three records were saved
AllThreeStored ==
    \A y \in {2020, 2021, 2022} : \E x \in tables["gdp_growth"] : KeyOf(x) = <<"KEN", y>>
LoadReturned == caller = "load_raw_records" /\ pc = "ended" /\ ret.kind = "returned"
YearsOf(seq) == [i \in 1..Len(seq) |-> seq[i].year]

\* C18: fetch_indicator returns the records of every fetched page in fetch
\* order: with 2 pages declared, 2022 and 2021 on page 1 and 2020 on page 2,
\* three records in that order; saved into a table that held none of their
\* keys they make its row count grow by exactly 3; load_raw_records returns
\* the table ordered by (country_iso3, year), those three as 2020, 2021, 2022.
EndToEndOrder ==
    /\ FetchReturned =>
        /\ all_records = RecordsOfPages(Len(resps))
        /\ TwoPagesFetched => all_records = <<recK22, recK21, recA>>
    /\ (SaveReturned /\ TwoPagesFetched /\ NoneStoredBefore) =>
        /\ YearsOf(rows) = <<2022, 2021, 2020>>
        /\ RowsGained = 3
    /\ LoadReturned =>
        /\ {loaded[i] : i \in 1..Len(loaded)} = tables[args.ind]
        /\ Len(loaded) = Cardinality(tables[args.ind])
        /\ \A i, j \in 1..Len(loaded) :
            i < j =>
                \/ CodeRank(loaded[i].country_iso3) < CodeRank(loaded[j].country_iso3)
                \/ /\ loaded[i].country_iso3 = loaded[j].country_iso3
                   /\ loaded[i].year < loaded[j].year
        /\ (TwoPagesFetched /\ AllThreeStored) =>
            YearsOf(SelectSeq(loaded, LAMBDA x : x.country_iso3 = "KEN")) = <<2020, 2021, 2022>>

\* the three records were fetched, saved next to a row of another country
\* and loaded
EndToEndOrderWitness ==
    /\ LoadReturned
    /\ TwoPagesFetched
    /\ all_records = <<recK22, recK21, recA>>
    /\ YearsOf(loaded) = <<2021, 2020, 2021, 2022>>
    /\ loaded[1].country_iso3 = "KE "

====
